---- MODULE Spec2Model ----
(***************************************************************************)
(* F5BigIPFirewallShell2GDriver (src/src/driver.py): one driver instance   *)
(* whose methods are called concurrently by the threads of the host        *)
(* platform.  The shared state of the instance is the CLI session pool     *)
(* self._cli and the lock inherited from GlobalLock; everything else is    *)
(* local to one call.                                                      *)
(***************************************************************************)
EXTENDS Integers, Sequences, FiniteSets, TLC

(* ------------------------------ bounds --------------------------------- *)
\* pools that get_cli may create during one run (calls of initialize)
MaxPools == 2

\* the calling threads of the host platform
Threads == {"t1", "t2"}

(* ------------------------------ values --------------------------------- *)
\* Python values that travel through the driver: None and strings
None == <<"none", "">>
Str(s) == <<"str", s>>

\* Python truth value of None and of a string
Truthy(v) == v # None /\ v # Str("")

\* Python's `a or b`: a when a is truthy, b otherwise
PyOr_NoneOnly(a, b) == IF a = None THEN b ELSE a
PyOr(a, b) == IF Truthy(a) THEN a ELSE b

\* the string arguments the platform may pass (absent, empty, given)
TypeValues == {None, Str(""), Str("startup")}
MethodValues == {None, Str(""), Str("append")}
ModeValues == {None, Str(""), Str("deep")}
TextValues == {Str(""), Str("x")}

\* the custom commands the platform may pass
CommandValues == { Str("show version"), Str("show version;show running") }

\* the "Sessions Concurrency Limit" attribute of the resource
LimitValues == {"1", "2", "x"}

\* what a runner method may return
RunnerValues == {None, Str("r")}

\* parse_custom_commands(custom_command), a helper of the device library:
\* the driver forwards whatever it makes of the command text
parse_custom_commands(command) == << "parsed", command >>

\* int(resource_config.sessions_concurrency_limit): 0 stands for ValueError
IntOf(s) == CASE s = "1" -> 1 [] s = "2" -> 2 [] OTHER -> 0

(* ----------------------------- operations ------------------------------ *)
DeviceOps ==
  { "get_inventory", "run_custom_command", "run_custom_config_command", "save",
    "restore", "load_firmware", "shutdown", "orchestration_save",
    "orchestration_restore", "health_check" }
Ops == DeviceOps \cup {"initialize", "cleanup"}

\* the methods decorated with @GlobalLock.lock
Locked_NoRestore(o) == o \in {"get_inventory", "load_firmware"}
Locked_AlsoSave(o) == o \in {"get_inventory", "restore", "load_firmware", "save"}
Locked(o) == o \in {"get_inventory", "restore", "load_firmware"}

\* the arguments of each method besides the context
ArgSets(o) ==
  CASE o = "initialize" -> [sessions_concurrency_limit : LimitValues]
    [] o \in {"run_custom_command", "run_custom_config_command"} ->
         [custom_command : CommandValues]
    [] o = "save" -> [folder_path : TextValues, configuration_type : TypeValues]
    [] o = "restore" ->
         [path : TextValues, configuration_type : TypeValues,
          restore_method : MethodValues]
    [] o = "load_firmware" -> [path : TextValues]
    [] o = "orchestration_save" -> [mode : ModeValues, custom_params : TextValues]
    [] o = "orchestration_restore" ->
         [saved_artifact_info : TextValues, custom_params : TextValues]
    [] OTHER -> { [n \in {} |-> None] }

\* one call of each kind: every argument given, the limit a number or not
PlainArgs(o) ==
  IF o = "initialize"
  THEN {a \in ArgSets(o) : a.sessions_concurrency_limit \in {"1", "x"}}
  ELSE {a \in ArgSets(o) : \A n \in DOMAIN a : a[n] \in {Str("x"), Str("startup"),
                                                        Str("append"), Str("deep"),
                                                        Str("show version")}}

\* the runner class and method each device operation calls
RunnerOf_Swapped(o) ==
  CASE o = "get_inventory" -> <<"F5FirewallAutoloadRunner", "discover">>
    [] o = "run_custom_command" -> <<"RunCommandRunner", "run_custom_command">>
    [] o = "run_custom_config_command" ->
         <<"RunCommandRunner", "run_custom_command">>
    [] o = "save" -> <<"F5ConfigurationRunner", "save">>
    [] o = "restore" -> <<"F5ConfigurationRunner", "restore">>
    [] o = "load_firmware" -> <<"F5FirmwareRunner", "load_firmware">>
    [] o = "shutdown" -> <<"StateRunner", "shutdown">>
    [] o = "orchestration_save" -> <<"F5ConfigurationRunner", "save">>
    [] o = "orchestration_restore" -> <<"F5ConfigurationRunner", "restore">>
    [] o = "health_check" -> <<"StateRunner", "shutdown">>
RunnerOf(o) ==
  CASE o = "get_inventory" -> <<"F5FirewallAutoloadRunner", "discover">>
    [] o = "run_custom_command" -> <<"RunCommandRunner", "run_custom_command">>
    [] o = "run_custom_config_command" ->
         <<"RunCommandRunner", "run_custom_config_command">>
    [] o = "save" -> <<"F5ConfigurationRunner", "save">>
    [] o = "restore" -> <<"F5ConfigurationRunner", "restore">>
    [] o = "load_firmware" -> <<"F5FirmwareRunner", "load_firmware">>
    [] o = "shutdown" -> <<"StateRunner", "shutdown">>
    [] o = "orchestration_save" -> <<"F5ConfigurationRunner", "orchestration_save">>
    [] o = "orchestration_restore" ->
         <<"F5ConfigurationRunner", "orchestration_restore">>
    [] o = "health_check" -> <<"StateRunner", "health_check">>

\* the keyword arguments each device operation forwards to its runner method
Forwarded(o, a) ==
  CASE o \in {"run_custom_command", "run_custom_config_command"} ->
         [custom_command |-> parse_custom_commands(a.custom_command)]
    [] o = "save" ->
         [folder_path |-> a.folder_path,
          configuration_type |-> PyOr(a.configuration_type, Str("running"))]
    [] o = "restore" ->
         [path |-> a.path,
          restore_method |-> PyOr(a.restore_method, Str("override")),
          configuration_type |-> PyOr(a.configuration_type, Str("running"))]
    [] o = "load_firmware" -> [path |-> a.path]
    [] o = "orchestration_save" ->
         [mode |-> PyOr(a.mode, Str("shallow")), custom_params |-> a.custom_params]
    [] o = "orchestration_restore" ->
         [saved_artifact_info |-> a.saved_artifact_info,
          custom_params |-> a.custom_params]
    [] OTHER -> [n \in {} |-> None]

\* what the method returns once its runner call returned ret
Returned_NeverResponse(o, ret) == None
Returned(o, ret) ==
  IF o \in {"restore", "orchestration_restore"} THEN None ELSE ret

\* a line written with logger.info
Info(msg) == << "info", msg >>

\* the log lines of each device operation
StartedLog(o) ==
  CASE o = "get_inventory" -> "Autoload command started"
    [] o = "run_custom_command" -> "Run custom command started"
    [] o = "run_custom_config_command" -> "Run custom config command started"
    [] o = "save" -> "Save command started"
    [] o = "restore" -> "Restore command started"
    [] o = "load_firmware" -> "Load firmware command started"
    [] o = "shutdown" -> "Shutdown command started"
    [] o = "orchestration_save" -> "Orchestration save command started"
    [] o = "orchestration_restore" -> "Orchestration restore command started"
    [] o = "health_check" -> "Health check command started"
ProgressLog(o) ==
  CASE o = "save" -> << Info("Saving started... ") >>
    [] o = "restore" -> << Info("Restoring started...") >>
    [] o = "load_firmware" -> << Info("Start Loading Firmware...") >>
    [] OTHER -> << >>
CompletedLog(o) ==
  CASE o = "get_inventory" -> "Autoload command completed"
    [] o = "run_custom_command" -> "Run custom command ended with response"
    [] o = "run_custom_config_command" ->
         "Run custom config command ended with response"
    [] o = "save" -> "Save command completed"
    [] o = "restore" -> "Restore command completed"
    [] o = "load_firmware" -> "Load firmware command completed with response"
    [] o = "shutdown" -> "Shutdown command completed with response"
    [] o = "orchestration_save" ->
         "Orchestration save command completed with response"
    [] o = "orchestration_restore" -> "Orchestration restore command completed"
    [] o = "health_check" -> "Health check command ended with response"

\* ErrorHandlingContext.__exit__ on an exception raised by step: the scope
\* logs the error on the call's logger and lets the exception go on
ErrorHandlingContext(l, step) == Append(l, <<"error", step>>)

(* -------------------------------- state --------------------------------- *)
VARIABLES
  cli,       \* self._cli: None or the CLI session pool made by get_cli
  lock,      \* GlobalLock's lock: the thread that holds it, or "free"
  created,   \* the number of pools get_cli has made (the identity of the next)
  pc,        \* where each thread stands in its current call
  op,        \* the method each thread calls (or called last)
  args,      \* the arguments of that call
  handed,    \* the pool the call passed to F5CliHandler, once it is built
  invoked,   \* the runner calls the call has made: method, arguments, result
  log,       \* what the call wrote on its logger
  outcome,   \* how the call ended: "returned" or "raised" ("none" while running)
  result     \* the value the call returned to its caller

vars == << cli, lock, created, pc, op, args, handed, invoked, log, outcome, result >>

\* a session pool is an object with an identity and its size
Pool(i, n) == << "pool", i, n >>
\* the call has built no CLI handler (yet)
Unbuilt == << "unbuilt", "" >>
NoArgs == [n \in {} |-> None]

InBody(t) == pc[t] \in {"config", "api", "handler", "runner"}
InInitialize(t) == pc[t] \in {"init_config", "init_cli"}

\* __init__: no pool, the lock free, no call made yet
Init ==
  /\ cli = None
  /\ lock = "free"
  /\ created = 0
  /\ pc = [t \in Threads |-> "idle"]
  /\ op = [t \in Threads |-> "none"]
  /\ args = [t \in Threads |-> NoArgs]
  /\ handed = [t \in Threads |-> Unbuilt]
  /\ invoked = [t \in Threads |-> << >>]
  /\ log = [t \in Threads |-> << >>]
  /\ outcome = [t \in Threads |-> "none"]
  /\ result = [t \in Threads |-> None]

\* the lock once a decorated method has ended (raised: by an exception)
Unlock_KeptOnRaise(l, o, raised) == IF Locked(o) /\ ~raised THEN "free" ELSE l
Unlock(l, o, raised) == IF Locked(o) THEN "free" ELSE l

\* thread t starts a call of a device operation o with arguments a: a locked
\* method goes for the lock first, any other logs its start and enters the scope
Call(t, o, a) ==
  /\ pc[t] = "idle"
  /\ o \in DeviceOps
  /\ op' = [op EXCEPT ![t] = o]
  /\ args' = [args EXCEPT ![t] = a]
  /\ handed' = [handed EXCEPT ![t] = Unbuilt]
  /\ invoked' = [invoked EXCEPT ![t] = << >>]
  /\ outcome' = [outcome EXCEPT ![t] = "none"]
  /\ result' = [result EXCEPT ![t] = None]
  /\ IF Locked(o)
     THEN /\ pc' = [pc EXCEPT ![t] = "acquire"]
          /\ log' = [log EXCEPT ![t] = << >>]
     ELSE /\ pc' = [pc EXCEPT ![t] = "config"]
          /\ log' = [log EXCEPT ![t] = << Info(StartedLog(o)) >>]
  /\ UNCHANGED << cli, lock, created >>

\* GlobalLock.lock: the decorated method starts once the lock is taken
Acquire(t) ==
  /\ pc[t] = "acquire"
  /\ lock = "free"
  /\ lock' = t
  /\ pc' = [pc EXCEPT ![t] = "config"]
  /\ log' = [log EXCEPT ![t] = << Info(StartedLog(op[t])) >>]
  /\ UNCHANGED << cli, created, op, args, handed, invoked, outcome, result >>

\* (a variant that tries the runner call again instead of ending the call)
Raise_Retry(t, step) ==
  IF step = "runner"
  THEN /\ log' = [log EXCEPT ![t] = ErrorHandlingContext(log[t], step)]
       /\ UNCHANGED << cli, lock, created, pc, op, args, handed, outcome, result >>
  ELSE /\ log' = [log EXCEPT ![t] = ErrorHandlingContext(log[t], step)]
       /\ outcome' = [outcome EXCEPT ![t] = "raised"]
       /\ result' = [result EXCEPT ![t] = None]
       /\ handed' = [handed EXCEPT ![t] = Unbuilt]
       /\ pc' = [pc EXCEPT ![t] = "idle"]
       /\ lock' = Unlock(lock, op[t], TRUE)
       /\ UNCHANGED << cli, created, op, args >>

\* an exception raised by step inside the scope: the scope logs it, the call
\* ends with the exception and the decorator gives the lock back
Raise(t, step) ==
  /\ log' = [log EXCEPT ![t] = ErrorHandlingContext(log[t], step)]
  /\ outcome' = [outcome EXCEPT ![t] = "raised"]
  /\ result' = [result EXCEPT ![t] = None]
  /\ handed' = [handed EXCEPT ![t] = Unbuilt]
  /\ pc' = [pc EXCEPT ![t] = "idle"]
  /\ lock' = Unlock(lock, op[t], TRUE)
  /\ UNCHANGED << cli, created, op, args >>

\* (a variant that builds the resource config before the scope is entered)
BuildConfig_OutsideScope(t, ok) ==
  /\ pc[t] = "config"
  /\ IF ok
     THEN /\ pc' = [pc EXCEPT ![t] = "api"]
          /\ UNCHANGED << cli, lock, created, op, args, handed, invoked, log,
                          outcome, result >>
     ELSE /\ outcome' = [outcome EXCEPT ![t] = "raised"]
          /\ pc' = [pc EXCEPT ![t] = "idle"]
          /\ lock' = Unlock(lock, op[t], TRUE)
          /\ UNCHANGED << cli, created, op, args, handed, invoked, log, result >>

\* create_firewall_resource_from_context inside the scope
BuildConfig(t, ok) ==
  /\ pc[t] = "config"
  /\ IF ok
     THEN /\ pc' = [pc EXCEPT ![t] = "api"]
          /\ UNCHANGED << cli, lock, created, op, args, handed, invoked, log,
                          outcome, result >>
     ELSE /\ Raise(t, "config")
          /\ UNCHANGED invoked

\* get_api(context)
GetApi(t, ok) ==
  /\ pc[t] = "api"
  /\ IF ok
     THEN /\ pc' = [pc EXCEPT ![t] = "handler"]
          /\ UNCHANGED << cli, lock, created, op, args, handed, invoked, log,
                          outcome, result >>
     ELSE /\ Raise(t, "api")
          /\ UNCHANGED invoked

\* the pool a call passes to F5CliHandler: self._cli as it is at that moment
PoolArgument_Fresh(c) == Pool(0, 1)
PoolArgument(c) == c

\* F5CliHandler(self._cli, ...), the SNMP handler of get_inventory, the runner
\* object and the progress line logged before the runner call
BuildHandler(t, ok) ==
  /\ pc[t] = "handler"
  /\ IF ok
     THEN /\ handed' = [handed EXCEPT ![t] = PoolArgument(cli)]
          /\ log' = [log EXCEPT ![t] = log[t] \o ProgressLog(op[t])]
          /\ pc' = [pc EXCEPT ![t] = "runner"]
          /\ UNCHANGED << cli, lock, created, op, args, invoked, outcome, result >>
     ELSE /\ Raise(t, "handler")
          /\ UNCHANGED invoked

\* the one runner call of the operation: it returns ret or raises
RunnerCall(t, ret, ok) ==
  /\ pc[t] = "runner"
  /\ invoked' = [invoked EXCEPT ![t] =
       Append(invoked[t],
              [runner |-> RunnerOf(op[t]), kwargs |-> Forwarded(op[t], args[t]),
               ret |-> IF ok THEN ret ELSE None, raised |-> ~ok])]
  /\ IF ok
     THEN /\ log' = [log EXCEPT ![t] = Append(log[t], Info(CompletedLog(op[t])))]
          /\ outcome' = [outcome EXCEPT ![t] = "returned"]
          /\ result' = [result EXCEPT ![t] = Returned(op[t], ret)]
          /\ handed' = [handed EXCEPT ![t] = Unbuilt]
          /\ pc' = [pc EXCEPT ![t] = "idle"]
          /\ lock' = Unlock(lock, op[t], FALSE)
          /\ UNCHANGED << cli, created, op, args >>
     ELSE Raise(t, "runner")

\* initialize(context): no logger, no scope, no lock
CallInitialize(t, a) ==
  /\ pc[t] = "idle"
  /\ created + Cardinality({u \in Threads : InInitialize(u)}) < MaxPools
  /\ op' = [op EXCEPT ![t] = "initialize"]
  /\ args' = [args EXCEPT ![t] = a]
  /\ handed' = [handed EXCEPT ![t] = Unbuilt]
  /\ invoked' = [invoked EXCEPT ![t] = << >>]
  /\ log' = [log EXCEPT ![t] = << >>]
  /\ outcome' = [outcome EXCEPT ![t] = "none"]
  /\ result' = [result EXCEPT ![t] = None]
  /\ pc' = [pc EXCEPT ![t] = "init_config"]
  /\ UNCHANGED << cli, lock, created >>

\* an exception in initialize goes to the caller as it is
RaiseInitialize(t) ==
  /\ outcome' = [outcome EXCEPT ![t] = "raised"]
  /\ pc' = [pc EXCEPT ![t] = "idle"]
  /\ UNCHANGED << cli, lock, created, op, args, handed, invoked, log, result >>

\* create_firewall_resource_from_context in initialize
InitConfig(t, ok) ==
  /\ pc[t] = "init_config"
  /\ IF ok
     THEN /\ pc' = [pc EXCEPT ![t] = "init_cli"]
          /\ UNCHANGED << cli, lock, created, op, args, handed, invoked, log,
                          outcome, result >>
     ELSE RaiseInitialize(t)

\* session_pool_size = int(...); self._cli = get_cli(session_pool_size)
InitCli(t) ==
  /\ pc[t] = "init_cli"
  /\ IF IntOf(args[t].sessions_concurrency_limit) = 0
     THEN RaiseInitialize(t)
     ELSE /\ cli' = Pool(created + 1, IntOf(args[t].sessions_concurrency_limit))
          /\ created' = created + 1
          /\ outcome' = [outcome EXCEPT ![t] = "returned"]
          /\ result' = [result EXCEPT ![t] = Str("Finished initializing")]
          /\ pc' = [pc EXCEPT ![t] = "idle"]
          /\ UNCHANGED << lock, op, args, handed, invoked, log >>

\* cleanup(): pass
cleanup_ClearsPool(t) ==
  /\ pc[t] = "idle"
  /\ op' = [op EXCEPT ![t] = "cleanup"]
  /\ args' = [args EXCEPT ![t] = NoArgs]
  /\ handed' = [handed EXCEPT ![t] = Unbuilt]
  /\ invoked' = [invoked EXCEPT ![t] = << >>]
  /\ log' = [log EXCEPT ![t] = << >>]
  /\ outcome' = [outcome EXCEPT ![t] = "returned"]
  /\ result' = [result EXCEPT ![t] = None]
  /\ cli' = None
  /\ UNCHANGED << lock, created, pc >>
cleanup(t) ==
  /\ pc[t] = "idle"
  /\ op' = [op EXCEPT ![t] = "cleanup"]
  /\ args' = [args EXCEPT ![t] = NoArgs]
  /\ handed' = [handed EXCEPT ![t] = Unbuilt]
  /\ invoked' = [invoked EXCEPT ![t] = << >>]
  /\ log' = [log EXCEPT ![t] = << >>]
  /\ outcome' = [outcome EXCEPT ![t] = "returned"]
  /\ result' = [result EXCEPT ![t] = None]
  /\ UNCHANGED << cli, lock, created, pc >>

\* the steps of a call once it is under way
Step(t) ==
  \/ \E ok \in BOOLEAN : BuildConfig(t, ok)
  \/ \E ok \in BOOLEAN : GetApi(t, ok)
  \/ \E ok \in BOOLEAN : BuildHandler(t, ok)
  \/ \E ok \in BOOLEAN : \E ret \in RunnerValues : RunnerCall(t, ret, ok)
  \/ \E ok \in BOOLEAN : InitConfig(t, ok)
  \/ InitCli(t)

\* concurrent calls of all threads
Next ==
  \/ \E t \in Threads : \E o \in DeviceOps : \E a \in PlainArgs(o) : Call(t, o, a)
  \/ \E t \in Threads : \E a \in PlainArgs("initialize") : CallInitialize(t, a)
  \/ \E t \in Threads : cleanup(t)
  \/ \E t \in Threads : Acquire(t)
  \/ \E t \in Threads : Step(t)

Spec == Init /\ [][Next]_vars

\* the calls of one thread, with every combination of arguments
ArgNext ==
  \/ \E o \in DeviceOps : \E a \in ArgSets(o) : Call("t1", o, a)
  \/ \E a \in ArgSets("initialize") : CallInitialize("t1", a)
  \/ cleanup("t1")
  \/ Acquire("t1")
  \/ Step("t1")

ArgSpec == Init /\ [][ArgNext]_vars

\* every running body goes on, and the lock is fair to those waiting for it
FairSpec ==
  /\ Spec
  /\ \A t \in Threads : WF_vars(Step(t))
  /\ \A t \in Threads : SF_vars(Acquire(t))

(* ------------------------------ properties ----------------------------- *)
\* the three operations the specification calls serialized
SerializedOps == {"get_inventory", "restore", "load_firmware"}
Entries(l) == {l[i] : i \in DOMAIN l}
ErrorEntries == {<<"error", step>> : step \in {"config", "api", "handler", "runner"}}
PoolId(p) == IF p = None THEN 0 ELSE p[2]

\* C1: at no moment are two calls of get_inventory, restore or load_firmware
\* (the same operation or different ones) both inside their bodies.
C1_MutualExclusion ==
  \A t, u \in Threads :
    (t # u /\ InBody(t) /\ InBody(u)) =>
      ~(op[t] \in SerializedOps /\ op[u] \in SerializedOps)

\* a serialized call is in its body while another one waits for the lock
C1_Witness ==
  \E t, u \in Threads :
    /\ t # u
    /\ InBody(t) /\ op[t] = "restore" /\ lock = t
    /\ pc[u] = "acquire" /\ op[u] = "load_firmware"

\* thread t can start o and be in its body at once, whatever the lock is
EntersBody(t, o) == \E a \in PlainArgs(o) : Call(t, o, a) /\ pc'[t] = "config"

\* C2: a call of an operation other than get_inventory, restore and
\* load_firmware never waits for the lock and never holds it, and an idle
\* thread can always enter the body of such a device operation, or run
\* cleanup, at once.
C2_Unsynchronized ==
  \A t \in Threads :
    /\ op[t] \notin SerializedOps => (pc[t] # "acquire" /\ lock # t)
    /\ pc[t] = "idle" =>
         /\ \A o \in DeviceOps \ SerializedOps : ENABLED EntersBody(t, o)
         /\ ENABLED cleanup(t)

\* orchestration_restore runs its body while restore holds the lock in its own
C2_Witness ==
  \E t, u \in Threads :
    /\ t # u
    /\ InBody(t) /\ op[t] = "restore" /\ lock = t
    /\ InBody(u) /\ op[u] = "orchestration_restore"

\* C3 as stated: whenever a call of any operation of the plugin surface ends
\* with an exception, the error-handling scope has logged it.
C3_EveryFailureLogged ==
  \A t \in Threads :
    outcome[t] = "raised" => log[t] # << >> /\ log[t][Len(log[t])] \in ErrorEntries

\* C3 amended: whenever a call of a device operation ends with an exception,
\* the scope has logged it, after the start line, as the last entry of the
\* call; a call of initialize that ends with an exception has logged nothing.
C3_DeviceFailureLogged ==
  \A t \in Threads :
    outcome[t] = "raised" =>
      IF op[t] \in DeviceOps
      THEN /\ Len(log[t]) >= 2
           /\ log[t][1] = Info(StartedLog(op[t]))
           /\ log[t][Len(log[t])] \in ErrorEntries
      ELSE op[t] = "initialize" /\ log[t] = << >>

\* a device operation failed while building its resource config, and the
\* scope logged it
C3_Witness ==
  \E t \in Threads :
    /\ op[t] = "save" /\ outcome[t] = "raised"
    /\ log[t] = << Info(StartedLog("save")), <<"error", "config">> >>

\* C4: a call makes at most one runner call, and when that runner call raised
\* the call has ended with the exception, without a result and without its
\* completion line in the log.
C4_NoRetry ==
  \A t \in Threads :
    /\ Len(invoked[t]) <= 1
    /\ (invoked[t] # << >> /\ invoked[t][1].raised) =>
         /\ pc[t] = "idle"
         /\ outcome[t] = "raised"
         /\ result[t] = None
         /\ Info(CompletedLog(op[t])) \notin Entries(log[t])

\* the runner call of load_firmware raised and the call ended with it
C4_Witness ==
  \E t \in Threads :
    /\ op[t] = "load_firmware" /\ outcome[t] = "raised"
    /\ Len(invoked[t]) = 1 /\ invoked[t][1].raised

\* the runner method the specification assigns to each device operation
Matching(o) ==
  CASE o = "get_inventory" -> "discover"
    [] o = "run_custom_command" -> "RunCommandRunner.run_custom_command"
    [] o = "run_custom_config_command" ->
         "RunCommandRunner.run_custom_config_command"
    [] o = "save" -> "F5ConfigurationRunner.save"
    [] o = "restore" -> "F5ConfigurationRunner.restore"
    [] o = "orchestration_save" -> "F5ConfigurationRunner.orchestration_save"
    [] o = "orchestration_restore" -> "F5ConfigurationRunner.orchestration_restore"
    [] o = "load_firmware" -> "F5FirmwareRunner.load_firmware"
    [] o = "shutdown" -> "StateRunner.shutdown"
    [] o = "health_check" -> "StateRunner.health_check"
MethodName(r) ==
  IF r[1] = "F5FirewallAutoloadRunner" THEN r[2]
  ELSE IF r[1] = "RunCommandRunner" THEN "RunCommandRunner." \o r[2]
  ELSE IF r[1] = "F5ConfigurationRunner" THEN "F5ConfigurationRunner." \o r[2]
  ELSE IF r[1] = "F5FirmwareRunner" THEN "F5FirmwareRunner." \o r[2]
  ELSE "StateRunner." \o r[2]

\* C5: every runner call a device operation makes is a call of its matching
\* runner method, and a call that returned has made exactly one.
C5_Routing ==
  \A t \in Threads :
    /\ \A i \in DOMAIN invoked[t] : MethodName(invoked[t][i].runner) = Matching(op[t])
    /\ (op[t] \in DeviceOps /\ outcome[t] = "returned") => Len(invoked[t]) = 1

\* health_check and run_custom_config_command both returned after their own
\* runner methods
C5_Witness ==
  \E t, u \in Threads :
    /\ op[t] = "health_check" /\ outcome[t] = "returned"
    /\ invoked[t][1].runner = <<"StateRunner", "health_check">>
    /\ op[u] = "run_custom_config_command" /\ outcome[u] = "returned"
    /\ invoked[u][1].runner = <<"RunCommandRunner", "run_custom_config_command">>

\* C6 as stated: when the runner call of a device operation succeeded, the
\* call returns exactly the value the runner returned.
C6_ReturnsRunnerValue ==
  \A t \in Threads :
    (op[t] \in DeviceOps /\ outcome[t] = "returned") =>
      result[t] = invoked[t][1].ret

\* C6 amended: when its runner call succeeded, a call of get_inventory,
\* run_custom_command, run_custom_config_command, save, load_firmware,
\* shutdown, orchestration_save or health_check returns exactly the value
\* the runner returned; restore and orchestration_restore return None
\* whatever their runner returned.
C6_ReturnsRunnerValueOrNone ==
  \A t \in Threads :
    (op[t] \in DeviceOps /\ outcome[t] = "returned") =>
      /\ Len(invoked[t]) = 1 /\ ~invoked[t][1].raised
      /\ result[t] = IF op[t] \in {"restore", "orchestration_restore"}
                     THEN None
                     ELSE invoked[t][1].ret

\* save returned the value of its runner while orchestration_restore returned
\* None although its runner returned a value
C6_Witness ==
  \E t, u \in Threads :
    /\ op[t] = "save" /\ outcome[t] = "returned"
    /\ invoked[t][1].ret = Str("r") /\ result[t] = Str("r")
    /\ op[u] = "orchestration_restore" /\ outcome[u] = "returned"
    /\ invoked[u][1].ret = Str("r") /\ result[u] = None

\* the step of thread t that assigns self._cli at the end of initialize
AssignsPool(t) ==
  /\ op[t] = "initialize" /\ pc[t] = "init_cli"
  /\ pc'[t] = "idle" /\ outcome'[t] = "returned"

Default(v, d) == IF v = None \/ v = Str("") THEN d ELSE v
Expected(o, a) ==
  CASE o = "save" ->
         [folder_path |-> a.folder_path,
          configuration_type |-> Default(a.configuration_type, Str("running"))]
    [] o = "restore" ->
         [path |-> a.path,
          configuration_type |-> Default(a.configuration_type, Str("running")),
          restore_method |-> Default(a.restore_method, Str("override"))]
    [] o = "orchestration_save" ->
         [mode |-> Default(a.mode, Str("shallow")), custom_params |-> a.custom_params]
    [] o = "orchestration_restore" ->
         [saved_artifact_info |-> a.saved_artifact_info,
          custom_params |-> a.custom_params]
    [] o = "load_firmware" -> [path |-> a.path]

\* C8: the runner call of save, restore, orchestration_save,
\* orchestration_restore and load_firmware gets "running", "override" and
\* "shallow" for an empty or missing configuration_type, restore_method and
\* mode, and every other value exactly as the caller gave it.
C8_Defaults ==
  \A t \in Threads :
    (op[t] \in {"save", "restore", "orchestration_save", "orchestration_restore",
                "load_firmware"} /\ invoked[t] # << >>) =>
      invoked[t][1].kwargs = Expected(op[t], args[t])

\* restore was called with an empty restore_method, a missing
\* configuration_type and an empty path, and its runner got the defaults
C8_Witness ==
  \E t \in Threads :
    /\ op[t] = "restore" /\ outcome[t] = "returned"
    /\ args[t].restore_method = Str("") /\ args[t].configuration_type = None
    /\ args[t].path = Str("")
    /\ invoked[t][1].kwargs =
         [path |-> Str(""), configuration_type |-> Str("running"),
          restore_method |-> Str("override")]

\* C9: the lock is held only by a call of get_inventory, restore or
\* load_firmware that is inside its body, so it is free again when such a
\* call has ended, by a return or by an exception; and every call waiting for
\* the lock eventually enters its body.
C9_LockReleased ==
  /\ [](\A t \in Threads : lock = t => (InBody(t) /\ op[t] \in SerializedOps))
  /\ [](\A t \in Threads :
          (op[t] \in SerializedOps /\ pc[t] = "idle") => lock # t)
  /\ \A t \in Threads : (pc[t] = "acquire") ~> InBody(t)

\* a call of restore ended with an exception, the lock is free and another
\* call is waiting to take it
C9_Witness ==
  \E t, u \in Threads :
    /\ op[t] = "restore" /\ outcome[t] = "raised" /\ pc[t] = "idle"
    /\ lock = "free"
    /\ pc[u] = "acquire" /\ op[u] = "get_inventory"

\* C10 as stated: no call builds its CLI handler with an absent pool.
C10_NeverAbsentPool ==
  \A t \in Threads : pc[t] = "runner" => handed[t] # None

\* C10 amended: the pool a device operation passes to its CLI handler is
\* self._cli as it is at that moment: a pool made by an initialize call that
\* completed earlier on the instance, or None when no initialize call has
\* completed yet.
C10_PoolOfCompletedInitialize ==
  [][\A t \in Threads :
       (pc[t] = "handler" /\ pc'[t] = "runner") =>
         /\ handed'[t] = cli
         /\ IF created = 0
            THEN handed'[t] = None
            ELSE handed'[t] # None /\ PoolId(handed'[t]) \in 1..created]_vars

\* a call holds a handler on the pool of the second initialize call
C10_Witness ==
  \E t \in Threads :
    /\ pc[t] = "runner" /\ op[t] = "run_custom_command"
    /\ created = 2 /\ PoolId(handed[t]) = 2
====
